---- MODULE Spec2Model ----
(***************************************************************************)
(* RedditScraper (src/src/reddit.py) as a state machine.                   *)
(*                                                                         *)
(* The attributes that a method reads are the variables scraped_data and   *)
(* joined_data_df.  self.posts_df and self.comments_df are assigned (lines *)
(* 179-180) and read nowhere: the frames they get are in ret, the return   *)
(* value of the call.  self.nodes and self.edges are never assigned.       *)
(*                                                                         *)
(* A call of scrape_subreddit or multi_scrape is a sequence of steps (one  *)
(* per request to the PRAW client), so that the client can raise between   *)
(* any two of them; the formatting methods make no request and are one     *)
(* step each.                                                              *)
(*                                                                         *)
(* Python dicts are insertion-ordered: a dict is a sequence of             *)
(* [key, val] pairs with distinct keys.  A pandas DataFrame is the         *)
(* sequence of its rows, each row a record of its columns.                 *)
(***************************************************************************)
EXTENDS Integers, Sequences, FiniteSets, TLC

VARIABLES
    scraped_data,     \* self.scraped_data: dict subreddit -> dict search -> bundle
    joined_data_df,   \* self.joined_data_df
    pc,               \* position of the running scrape_subreddit call
    args,             \* its arguments (kept until the caller has its result)
    results,          \* its lazy listing: the posts not yet iterated
    post,             \* its loop variable
    all_posts,        \* its local bundle
    multi,            \* the running multi_scrape call: its list, position and combined_data
    fetched,          \* some request went to the PRAW client during the running call
    pre,              \* scraped_data as it was when the running call began
    ret,              \* what the last call returned or raised
    nscrapes          \* scrapes that wrote to scraped_data or are running (bounds the model)

vars == <<scraped_data, joined_data_df, pc, args,
          results, post, all_posts, multi, fetched, pre, ret, nscrapes>>

----------------------------------------------------------------------------
(* Bounds *)

\* writes of a bundle to scraped_data, per behaviour
MaxScrapes == 2

----------------------------------------------------------------------------
(* Python values as far as isinstance can tell them apart *)

PyStr(x) == [type |-> "str", s |-> x, i |-> 0, b |-> FALSE]
PyInt(n) == [type |-> "int", s |-> "", i |-> n, b |-> FALSE]
PyBool(v) == [type |-> "bool", s |-> "", i |-> IF v THEN 1 ELSE 0, b |-> v]
PyList(xs) == [type |-> "list", items |-> xs]
PyNotList(x) == [type |-> x.type, items |-> <<x>>]

\* bool is a subclass of int
isinstance(obj, exp_type) ==
    \/ obj.type = exp_type
    \/ obj.type = "bool" /\ exp_type = "int"

\* the exception _type_defence raises, or "ok"
_type_defence(obj, exp_type) ==
    IF isinstance(obj, exp_type) THEN "ok" ELSE "TypeError"

valid_sorts == {"relevance", "hot", "top", "new", "comments"}
valid_time_filters == {"all", "day", "hour", "month", "week", "year"}

----------------------------------------------------------------------------
(* Insertion-ordered dicts *)

Min(a, b) == IF a <= b THEN a ELSE b
Max(a, b) == IF a >= b THEN a ELSE b

DictKeys(d) == {d[i].key : i \in DOMAIN d}
DictHas(d, k) == \E i \in DOMAIN d : d[i].key = k
DictGet(d, k) == d[CHOOSE i \in DOMAIN d : d[i].key = k].val
\* d[k] = v: an existing key keeps its place, a new one goes last
DictSet(d, k, v) ==
    IF DictHas(d, k)
    THEN [i \in DOMAIN d |-> IF d[i].key = k THEN [key |-> k, val |-> v] ELSE d[i]]
    ELSE Append(d, [key |-> k, val |-> v])

\* the slice xs[:n]
SliceTo(xs, n) ==
    IF n >= 0 THEN SubSeq(xs, 1, Min(n, Len(xs)))
    ELSE SubSeq(xs, 1, Max(0, Len(xs) + n))

----------------------------------------------------------------------------
(* What the PRAW client can answer: the records on the platform *)

Null == "<None>"
Subreddits == {"s1", "s2"}
Queries == {"qa", "qb"}

Comment(id, body, author, score, created) ==
    [id |-> id, body |-> body, author |-> author, score |-> score, created |-> created]

Submission(id, title, author, flair, score, ratio, created, comments) ==
    [id |-> id, title |-> title, author |-> author, author_flair_text |-> flair,
     score |-> score, upvote_ratio |-> ratio, created |-> created, comments |-> comments]

\* p1: its author replies to the own post, and it has more comments than a
\* scrape asks for; p2: the accounts are deleted
Submissions ==
    { Submission("p1", "t1", "alice", "mod", 7, 90, 100,
                 << Comment("c1", "b1", "alice", 1, 101),
                    Comment("c2", "b2", "bob", 2, 102),
                    Comment("c3", "b3", "carol", 3, 103) >>),
      Submission("p2", "t2", Null, Null, 3, 50, 200,
                 << Comment("c4", "b4", Null, 0, 201) >>) }

\* the platform's ranking of its submissions
Ranking ==
    LET p1 == CHOOSE p \in Submissions : p.id = "p1"
        p2 == CHOOSE p \in Submissions : p.id = "p2"
    IN  <<p1, p2>>

\* sub.search(limit=n): the first submissions of the ranking, as many as
\* match the query and at most n
Listings(n) == {SubSeq(Ranking, 1, k) : k \in 0..Min(Max(n, 0), Len(Ranking))}

\* datetime.datetime.fromtimestamp
fromtimestamp(t) == [datetime |-> t]

\* x.author.name if x.author else "unknown_author"
AuthorName(author) == IF author # Null THEN author ELSE "unknown_author"

----------------------------------------------------------------------------
(* Bundles: scrape_subreddit's all_posts *)

NoComments ==
    [post_id |-> <<>>, comment_id |-> <<>>, comment_content |-> <<>>,
     comment_author |-> <<>>, comment_score |-> <<>>, comment_date |-> <<>>]

NewBundle ==
    [post_id |-> <<>>, title |-> <<>>, author |-> <<>>, author_flair |-> <<>>,
     score |-> <<>>, upvote_ratio |-> <<>>, post_date |-> <<>>, comments |-> NoComments]

AppendPost(b, p) ==
    [b EXCEPT !.post_id = Append(@, p.id),
              !.title = Append(@, p.title),
              !.author = Append(@, AuthorName(p.author)),
              !.author_flair = Append(@, p.author_flair_text),
              !.score = Append(@, p.score),
              !.upvote_ratio = Append(@, p.upvote_ratio),
              !.post_date = Append(@, fromtimestamp(p.created))]

\* a plausible slip: the comment's id appended where the post's belongs
_obtain_comments_own_id(p, current_comments, comment_limit) ==
    LET cs == SliceTo(p.comments, comment_limit)
        Col(f(_)) == [k \in 1..Len(cs) |-> f(cs[k])]
        Id(c) == c.id
        Body(c) == c.body
        Author(c) == AuthorName(c.author)
        Score(c) == c.score
        Date(c) == fromtimestamp(c.created)
    IN  [current_comments EXCEPT
              !.post_id = @ \o Col(Id),
              !.comment_id = @ \o Col(Id),
              !.comment_content = @ \o Col(Body),
              !.comment_author = @ \o Col(Author),
              !.comment_score = @ \o Col(Score),
              !.comment_date = @ \o Col(Date)]

_obtain_comments(p, current_comments, comment_limit) ==
    LET cs == SliceTo(p.comments, comment_limit)
        Col(f(_)) == [k \in 1..Len(cs) |-> f(cs[k])]
        ThePost(c) == p.id
        Id(c) == c.id
        Body(c) == c.body
        Author(c) == AuthorName(c.author)
        Score(c) == c.score
        Date(c) == fromtimestamp(c.created)
    IN  [current_comments EXCEPT
              !.post_id = @ \o Col(ThePost),
              !.comment_id = @ \o Col(Id),
              !.comment_content = @ \o Col(Body),
              !.comment_author = @ \o Col(Author),
              !.comment_score = @ \o Col(Score),
              !.comment_date = @ \o Col(Date)]

\* a plausible slip: the except branch taken always
StoreBundleFresh(store, subreddit, search, bundle) ==
    DictSet(store, subreddit, DictSet(<<>>, search, bundle))

\* lines 127-131: the try, and the except KeyError
StoreBundle(store, subreddit, search, bundle) ==
    IF DictHas(store, subreddit)
    THEN DictSet(store, subreddit, DictSet(DictGet(store, subreddit), search, bundle))
    ELSE DictSet(store, subreddit, DictSet(<<>>, search, bundle))

----------------------------------------------------------------------------
(* DataFrames *)

NoneDF == [none |-> TRUE, rows |-> <<>>]
DF(rows) == [none |-> FALSE, rows |-> rows]

\* pd.DataFrame(dict of columns) needs columns of one length (else ValueError)
ColumnsAligned(d) == \A c1, c2 \in DOMAIN d : Len(d[c1]) = Len(d[c2])

\* pd.DataFrame(d): one row per index
DataFrame(d) ==
    LET n == Len(d[CHOOSE c \in DOMAIN d : TRUE])
    IN  [k \in 1..n |-> [c \in DOMAIN d |-> d[c][k]]]

\* a plausible slip: the new frame assigned, not concatenated
concat_dropped(a, b) == b

\* pd.concat([a, b], axis=0)
concat(a, b) == a \o b

\* a plausible slip: no deepcopy, the loop writes into self.scraped_data
after_no_copy(original, written_copy) == written_copy

\* deepcopy(self.scraped_data): the loop of semi_format_to_pandas writes into
\* the copy, so the original is what it was
after_deepcopy(original, written_copy) == original

\* the (subreddit, query) pairs in the order the two for loops visit them
RECURSIVE Visits(_, _)
Visits(store, k) ==
    IF k > Len(store) THEN <<>>
    ELSE [j \in 1..Len(store[k].val) |->
              [subr |-> store[k].key, query |-> store[k].val[j].key]]
         \o Visits(store, k + 1)

\* lines 171-178 from the k-th visit on; acc is the loop's state
RECURSIVE FlattenFrom(_, _, _)
FlattenFrom(visits, k, acc) ==
    IF k > Len(visits) THEN acc
    ELSE
      LET subr == visits[k].subr
          query == visits[k].query
          bundle == DictGet(DictGet(acc.data_copy, subr), query)
          items == Len(bundle.post_id)
          stamped == [subreddit |-> [item \in 1..items |-> subr],
                      search_query |-> [item \in 1..items |-> query]] @@ bundle
          \* pop("comments", None); pd.DataFrame(None) has no rows
          comments == IF "comments" \in DOMAIN stamped
                      THEN DataFrame(stamped.comments) ELSE <<>>
          popped == [c \in (DOMAIN stamped) \ {"comments"} |-> stamped[c]]
      IN  FlattenFrom(visits, k + 1,
              [comments_df |-> concat(acc.comments_df, comments),
               posts_df |-> concat(acc.posts_df, DataFrame(popped)),
               data_copy |-> StoreBundle(acc.data_copy, subr, query, popped)])

Flatten(store) ==
    FlattenFrom(Visits(store, 1), 1,
                [posts_df |-> <<>>, comments_df |-> <<>>, data_copy |-> store])

\* every frame the loop builds has aligned columns
Flattenable(store) ==
    \A k \in DOMAIN store : \A j \in DOMAIN store[k].val :
        LET b == store[k].val[j].val
        IN  /\ ColumnsAligned([c \in (DOMAIN b) \ {"comments"} |-> b[c]])
            /\ "comments" \in DOMAIN b => ColumnsAligned(b.comments)

NaN == "NaN"
PostColumns == {"post_id", "title", "author", "author_flair", "score",
                "upvote_ratio", "post_date", "subreddit", "search_query"}

\* left.merge(right, how="right", on="post_id") from right's k-th row on
RECURSIVE merge_right(_, _, _)
merge_right(left, right, k) ==
    IF k > Len(right) THEN <<>>
    ELSE
      LET r == right[k]
          Matches(l) == l.post_id = r.post_id
          ms == SelectSeq(left, Matches)
          unmatched == [c \in PostColumns \ {"post_id"} |-> NaN]
      IN  (IF ms = <<>> THEN << r @@ unmatched >>
           ELSE [j \in 1..Len(ms) |-> r @@ ms[j]])
          \o merge_right(left, right, k + 1)

\* list(copied_data.author) + list(copied_data.comment_author)
possible_users(joined) ==
    [k \in 1..Len(joined) |-> joined[k].author]
    \o [k \in 1..Len(joined) |-> joined[k].comment_author]

SeqRange(xs) == {xs[k] : k \in DOMAIN xs}

\* how often x occurs in xs
Count(xs, x) == Cardinality({k \in DOMAIN xs : xs[k] = x})

\* a plausible slip: list(possible_users), without set
nodes_frame_list(users) ==
    [row \in {[id |-> u] : u \in SeqRange(users)} |-> Count(users, row.id)]

\* pd.DataFrame({"id": list(set(users))}): the order of a set's elements is
\* not defined, so the frame is kept as the bag of its rows
nodes_frame(users) ==
    LET nodes == SeqRange(users)
    IN  [row \in {[id |-> u] : u \in nodes} |-> 1]

\* rename(columns={"comment_author": "source", "author": "target"})
rename(row) ==
    [c \in ((DOMAIN row) \ {"comment_author", "author"}) \cup {"source", "target"} |->
        IF c = "source" THEN row.comment_author
        ELSE IF c = "target" THEN row.author
        ELSE row[c]]

----------------------------------------------------------------------------
(* The calls a client of the class can make *)

ValidArgs ==
    {[subreddit |-> PyStr(c), search |-> PyStr(q), post_limit |-> PyInt(2),
      sort |-> PyStr("top"), time_filter |-> PyStr("all"),
      get_comments |-> PyBool(g[1]), comment_limit |-> PyInt(g[2])] :
        c \in Subreddits, q \in Queries, g \in {<<FALSE, 1>>, <<TRUE, 2>>}}

SomeValidArgs ==
    [subreddit |-> PyStr("s1"), search |-> PyStr("qa"), post_limit |-> PyInt(2),
     sort |-> PyStr("top"), time_filter |-> PyStr("all"),
     get_comments |-> PyBool(TRUE), comment_limit |-> PyInt(2)]

\* one parameter of the wrong type, or outside its enumeration
InvalidArgs ==
    { [SomeValidArgs EXCEPT !.subreddit = PyInt(5)],
      [SomeValidArgs EXCEPT !.search = PyInt(5)],
      [SomeValidArgs EXCEPT !.post_limit = PyStr("2")],
      [SomeValidArgs EXCEPT !.sort = PyInt(5)],
      [SomeValidArgs EXCEPT !.sort = PyStr("bogus")],
      [SomeValidArgs EXCEPT !.time_filter = PyInt(5)],
      [SomeValidArgs EXCEPT !.time_filter = PyStr("bogus")],
      [SomeValidArgs EXCEPT !.get_comments = PyInt(1)],
      [SomeValidArgs EXCEPT !.comment_limit = PyStr("2")] }

\* the parameters multi_scrape hands on to every scrape_subreddit
MultiArgs ==
    {[SomeValidArgs EXCEPT !.search = PyStr(q)] : q \in Queries}
    \cup {[SomeValidArgs EXCEPT !.sort = PyStr("bogus")]}

\* a string in place of the list, the empty list, lists with a repeated
\* subreddit and with an element that is no string
SubredditLists ==
    { PyNotList(PyStr("s1")),
      PyList(<<>>),
      PyList(<<PyStr("s1")>>),
      PyList(<<PyStr("s1"), PyStr("s2")>>),
      PyList(<<PyStr("s2"), PyStr("s2")>>),
      PyList(<<PyStr("s2"), PyInt(5)>>),
      PyList(<<PyStr("s1"), PyStr("s2"), PyStr("s1")>>) }

\* lines 74-86: the first exception the defences raise, or "ok"
Defences(a) ==
    IF _type_defence(a.subreddit, "str") # "ok" THEN "TypeError"
    ELSE IF _type_defence(a.search, "str") # "ok" THEN "TypeError"
    ELSE IF _type_defence(a.post_limit, "int") # "ok" THEN "TypeError"
    ELSE IF _type_defence(a.sort, "str") # "ok" THEN "TypeError"
    ELSE IF a.sort.s \notin valid_sorts THEN "ValueError"
    ELSE IF _type_defence(a.time_filter, "str") # "ok" THEN "TypeError"
    ELSE IF a.time_filter.s \notin valid_time_filters THEN "ValueError"
    ELSE IF _type_defence(a.get_comments, "bool") # "ok" THEN "TypeError"
    ELSE IF _type_defence(a.comment_limit, "int") # "ok" THEN "TypeError"
    ELSE "ok"

Running == [op |-> "running", exc |-> "none", val |-> <<>>]
Returned(op, val) == [op |-> op, exc |-> "none", val |-> val]
Raised(op, exc) == [op |-> op, exc |-> exc, val |-> <<>>]

NoMulti == [active |-> FALSE, subreddits |-> <<>>, idx |-> 0,
            combined_data |-> <<>>, call |-> SomeValidArgs]

\* the call on the client's stack that the caller sees fail or return
TopCall == IF multi.active THEN "multi_scrape" ELSE "scrape_subreddit"

\* no call is running and the caller has taken the last call's result
Idle == pc = "idle" /\ ~multi.active /\ ret = Running

NoPost == Ranking[1]
NoArgs == SomeValidArgs

Init ==
    /\ scraped_data = <<>>
    /\ joined_data_df = NoneDF
    /\ pc = "idle"
    /\ args = NoArgs
    /\ results = <<>>
    /\ post = NoPost
    /\ all_posts = NewBundle
    /\ multi = NoMulti
    /\ fetched = FALSE
    /\ pre = <<>>
    /\ ret = Running
    /\ nscrapes = 0


\* scrape_subreddit's locals are gone when it returns or raises
FrameGone ==
    /\ results' = <<>>
    /\ post' = NoPost
    /\ all_posts' = NewBundle

----------------------------------------------------------------------------
(* scrape_subreddit *)

\* lines 74-86 raise
ScrapeRejected(a) ==
    /\ Idle
    /\ Defences(a) # "ok"
    /\ ret' = Raised("scrape_subreddit", Defences(a))
    /\ fetched' = FALSE
    /\ pre' = scraped_data
    /\ UNCHANGED <<scraped_data, joined_data_df, pc, args, results, post, all_posts, multi, nscrapes>>

\* lines 74-105
ScrapeCall(a) ==
    /\ Idle
    /\ nscrapes < MaxScrapes
    /\ Defences(a) = "ok"
    /\ pc' = "search"
    /\ args' = a
    /\ all_posts' = NewBundle
    /\ fetched' = FALSE
    /\ pre' = scraped_data
    /\ ret' = Running
    /\ nscrapes' = nscrapes + 1
    /\ UNCHANGED <<scraped_data, joined_data_df, results, post, multi>>

\* line 106
Search ==
    /\ pc = "search"
    /\ \E listing \in Listings(args.post_limit.i) : results' = listing
    /\ fetched' = TRUE
    /\ pc' = "loop"
    /\ UNCHANGED <<scraped_data, joined_data_df, args, post, all_posts, multi, pre, ret, nscrapes>>

\* lines 107-118
NextPost ==
    /\ pc = "loop"
    /\ results # <<>>
    /\ post' = Head(results)
    /\ results' = Tail(results)
    /\ all_posts' = AppendPost(all_posts, Head(results))
    /\ pc' = IF args.get_comments.b THEN "comments" ELSE "loop"
    /\ UNCHANGED <<scraped_data, joined_data_df, args, multi, fetched, pre, ret, nscrapes>>

\* lines 120-125
ObtainComments ==
    /\ pc = "comments"
    /\ all_posts' = [all_posts EXCEPT
                        !.comments = _obtain_comments(post, @, args.comment_limit.i)]
    /\ pc' = "loop"
    /\ UNCHANGED <<scraped_data, joined_data_df, args, results, post, multi, fetched, pre, ret, nscrapes>>

\* a plausible slip: the write of lines 127-131 in a finally clause
StoreAfterRaiseFinally(store, subreddit, search, bundle) ==
    StoreBundle(store, subreddit, search, bundle)

\* a plausible slip: the entry is registered, empty, before the fetch
StoreAfterRaiseRegistered(store, subreddit, search, bundle) ==
    StoreBundle(store, subreddit, search, NewBundle)

\* scraped_data when the client raises inside lines 106-125: the exception
\* leaves scrape_subreddit before line 127
StoreAfterRaise(store, subreddit, search, bundle) == store

\* what a traceback shows of multi_scrape's frame when the exception passes it
MultiFrame ==
    IF multi.active
    THEN [at |-> multi.idx, subreddits |-> multi.subreddits,
          search |-> multi.call.search.s, combined_data |-> multi.combined_data]
    ELSE <<>>

\* the client raises: no handler in scrape_subreddit or multi_scrape
ClientRaises ==
    /\ pc \in {"search", "loop", "comments"}
    /\ scraped_data' = StoreAfterRaise(scraped_data, args.subreddit.s, args.search.s, all_posts)
    /\ ret' = [op |-> TopCall, exc |-> "UpstreamFailure", val |-> MultiFrame]
    /\ multi' = NoMulti
    /\ fetched' = TRUE
    /\ pc' = "idle"
    /\ FrameGone
    /\ args' = NoArgs
    /\ nscrapes' = nscrapes - 1
    /\ UNCHANGED <<joined_data_df, pre>>

\* lines 127-134, and multi_scrape's line 161 when it is the caller
ScrapeReturn ==
    /\ pc = "loop"
    /\ results = <<>>
    /\ scraped_data' = StoreBundle(scraped_data, args.subreddit.s, args.search.s, all_posts)
    /\ pc' = "idle"
    /\ IF multi.active
       THEN /\ multi' = [multi EXCEPT
                            !.combined_data = DictSet(@, args.subreddit.s, all_posts),
                            !.idx = @ + 1]
            /\ args' = NoArgs
            /\ UNCHANGED ret
       ELSE /\ ret' = Returned("scrape_subreddit",
                               DictSet(<<>>, args.subreddit.s, all_posts))
            /\ UNCHANGED <<multi, args>>
    /\ FrameGone
    /\ UNCHANGED <<joined_data_df, fetched, pre, nscrapes>>

----------------------------------------------------------------------------
(* multi_scrape *)

\* lines 147-149 raise
MultiRejected(subreddits) ==
    /\ Idle
    /\ \/ _type_defence(subreddits, "list") # "ok"
          /\ ret' = Raised("multi_scrape", "TypeError")
       \/ _type_defence(subreddits, "list") = "ok"
          /\ Len(subreddits.items) <= 0
          /\ ret' = Raised("multi_scrape", "UserWarning")
    /\ fetched' = FALSE
    /\ pre' = scraped_data
    /\ UNCHANGED <<scraped_data, joined_data_df, pc, args, results, post, all_posts, multi, nscrapes>>

\* lines 147-150
MultiCall(subreddits, a) ==
    /\ Idle
    /\ _type_defence(subreddits, "list") = "ok"
    /\ Len(subreddits.items) > 0
    /\ nscrapes + Len(subreddits.items) <= MaxScrapes
    /\ multi' = [active |-> TRUE, subreddits |-> subreddits.items, idx |-> 1,
                 combined_data |-> <<>>, call |-> a]
    /\ fetched' = FALSE
    /\ pre' = scraped_data
    /\ ret' = Running
    /\ UNCHANGED <<scraped_data, joined_data_df, pc, args, results, post, all_posts, nscrapes>>

\* lines 151-160: the next subreddit of the list goes to scrape_subreddit
MultiNext ==
    /\ pc = "idle"
    /\ multi.active
    /\ multi.idx <= Len(multi.subreddits)
    /\ LET a == [multi.call EXCEPT !.subreddit = multi.subreddits[multi.idx]]
       IN  IF Defences(a) = "ok"
           THEN /\ pc' = "search"
                /\ args' = a
                /\ all_posts' = NewBundle
                /\ nscrapes' = nscrapes + 1
                /\ UNCHANGED <<multi, ret>>
           ELSE /\ ret' = Raised("multi_scrape", Defences(a))
                /\ multi' = NoMulti
                /\ UNCHANGED <<pc, args, all_posts, nscrapes>>
    /\ UNCHANGED <<scraped_data, joined_data_df, results, post, fetched, pre>>

\* line 162
MultiReturn ==
    /\ pc = "idle"
    /\ multi.active
    /\ multi.idx > Len(multi.subreddits)
    /\ ret' = Returned("multi_scrape", multi.combined_data)
    /\ multi' = NoMulti
    /\ UNCHANGED <<scraped_data, joined_data_df, pc, args, results, post, all_posts, fetched, pre, nscrapes>>

----------------------------------------------------------------------------
(* The formatting methods *)

\* lines 166-181: <<exception or "ok", posts_df, comments_df, scraped_data>>
semi_format_to_pandas(store) ==
    IF store = <<>> THEN [exc |-> "UserWarning"]
    ELSE IF ~Flattenable(store) THEN [exc |-> "ValueError"]
    ELSE LET end == Flatten(store)
         IN  [exc |-> "ok", posts_df |-> end.posts_df, comments_df |-> end.comments_df,
              scraped_data |-> after_deepcopy(store, end.data_copy)]

\* lines 185-190 after semi_format_to_pandas returned
full_format_to_pandas(all_posts_df, all_comments_df) ==
    merge_right(all_posts_df, all_comments_df, 1)

SemiFormat ==
    /\ Idle
    /\ LET r == semi_format_to_pandas(scraped_data)
       IN  IF r.exc # "ok"
           THEN /\ ret' = Raised("semi_format_to_pandas", r.exc)
                /\ UNCHANGED scraped_data
           ELSE /\ scraped_data' = r.scraped_data
                /\ ret' = Returned("semi_format_to_pandas", <<r.posts_df, r.comments_df>>)
    /\ pre' = scraped_data
    /\ fetched' = FALSE
    /\ UNCHANGED <<joined_data_df, pc, args, results, post, all_posts, multi, nscrapes>>

FullFormat ==
    /\ Idle
    /\ LET r == semi_format_to_pandas(scraped_data)
       IN  IF r.exc # "ok"
           THEN /\ ret' = Raised("full_format_to_pandas", r.exc)
                /\ UNCHANGED <<scraped_data, joined_data_df>>
           ELSE LET joined == full_format_to_pandas(r.posts_df, r.comments_df)
                IN  /\ scraped_data' = r.scraped_data
                    /\ joined_data_df' = DF(joined)
                    /\ ret' = Returned("full_format_to_pandas", joined)
    /\ pre' = scraped_data
    /\ fetched' = FALSE
    /\ UNCHANGED <<pc, args, results, post, all_posts, multi, nscrapes>>

\* lines 198-212
create_nodes_and_edges(joined) ==
    [nodes |-> nodes_frame(possible_users(joined)),
     edges |-> [k \in DOMAIN joined |-> rename(joined[k])]]

\* lines 195-196 find a joined frame
GraphFromJoined ==
    /\ Idle
    /\ ~joined_data_df.none
    /\ ret' = Returned("create_nodes_and_edges",
                       create_nodes_and_edges(joined_data_df.rows))
    /\ pre' = scraped_data
    /\ fetched' = FALSE
    /\ UNCHANGED <<scraped_data, joined_data_df, pc, args, results, post, all_posts, multi, nscrapes>>

\* lines 195-196 find none and call full_format_to_pandas
GraphFromStore ==
    /\ Idle
    /\ joined_data_df.none
    /\ LET r == semi_format_to_pandas(scraped_data)
       IN  IF r.exc # "ok"
           THEN /\ ret' = Raised("create_nodes_and_edges", r.exc)
                /\ UNCHANGED <<scraped_data, joined_data_df>>
           ELSE LET joined == full_format_to_pandas(r.posts_df, r.comments_df)
                IN  /\ scraped_data' = r.scraped_data
                    /\ joined_data_df' = DF(joined)
                    /\ ret' = Returned("create_nodes_and_edges",
                                       create_nodes_and_edges(joined))
    /\ pre' = scraped_data
    /\ fetched' = FALSE
    /\ UNCHANGED <<pc, args, results, post, all_posts, multi, nscrapes>>

----------------------------------------------------------------------------

\* the caller takes what the call returned or raised, and goes on
CallerContinues ==
    /\ pc = "idle"
    /\ ~multi.active
    /\ ret # Running
    /\ ret' = Running
    /\ args' = NoArgs
    /\ pre' = scraped_data
    /\ fetched' = FALSE
    /\ UNCHANGED <<scraped_data, joined_data_df, pc, results, post, all_posts, multi, nscrapes>>

Next ==
    \/ \E a \in InvalidArgs : ScrapeRejected(a)
    \/ \E a \in ValidArgs : ScrapeCall(a)
    \/ Search
    \/ NextPost
    \/ ObtainComments
    \/ ClientRaises
    \/ ScrapeReturn
    \/ \E subreddits \in SubredditLists : MultiRejected(subreddits)
    \/ \E subreddits \in SubredditLists, a \in MultiArgs : MultiCall(subreddits, a)
    \/ MultiNext
    \/ MultiReturn
    \/ SemiFormat
    \/ FullFormat
    \/ GraphFromJoined
    \/ GraphFromStore
    \/ CallerContinues

Spec == Init /\ [][Next]_vars

----------------------------------------------------------------------------
(* Properties *)

\* scraped_data[c][q] as a sequence of no or one bundle
Entry(store, c, q) ==
    IF DictHas(store, c) /\ DictHas(DictGet(store, c), q)
    THEN <<DictGet(DictGet(store, c), q)>>
    ELSE <<>>

Slots == Subreddits \X Queries

RECURSIVE SumSeq(_)
SumSeq(ns) == IF ns = <<>> THEN 0 ELSE Head(ns) + SumSeq(Tail(ns))

\* the posts, and the comments, of all bundles of a store
TotalPosts(store) ==
    SumSeq([k \in DOMAIN store |->
              SumSeq([j \in DOMAIN store[k].val |-> Len(store[k].val[j].val.post_id)])])
TotalComments(store) ==
    SumSeq([k \in DOMAIN store |->
              SumSeq([j \in DOMAIN store[k].val |->
                        Len(store[k].val[j].val.comments.comment_id)])])

PostFields == {"post_id", "title", "author", "author_flair", "score",
               "upvote_ratio", "post_date"}
CommentFields == {"post_id", "comment_id", "comment_content", "comment_author",
                  "comment_score", "comment_date"}

Returns(op) == ret.op = op /\ ret.exc = "none"

\* C1: full_format_to_pandas returns a joined table that holds every row of
\* the comments table exactly once: as many rows as the comments table, the
\* k-th of them the k-th comment.
C1_JoinKeepsEachCommentOnce ==
    Returns("full_format_to_pandas") =>
        LET comments_table == semi_format_to_pandas(scraped_data).comments_df
        IN  /\ Len(ret.val) = Len(comments_table)
            /\ \A k \in DOMAIN ret.val :
                  k \in DOMAIN comments_table
                  /\ [c \in CommentFields |-> ret.val[k][c]] = comments_table[k]

\* C2: a step changes no entry of scraped_data but the one of the running
\* scrape_subreddit call, which becomes the call's bundle; no key goes.
C2_ScrapeWritesOnlyItsEntry ==
    [][ /\ DictKeys(scraped_data) \subseteq DictKeys(scraped_data')
        /\ \A slot \in Slots :
             LET before == Entry(scraped_data, slot[1], slot[2])
                 after == Entry(scraped_data', slot[1], slot[2])
             IN  /\ before # <<>> => after # <<>>
                 /\ after # before =>
                      /\ pc = "loop"
                      /\ slot = <<args.subreddit.s, args.search.s>>
                      /\ after = <<all_posts>> ]_vars

\* a scrape wrote its entry beside a sibling query of the same subreddit
C2_Witness ==
    /\ Returns("scrape_subreddit")
    /\ \E c \in Subreddits : \E q1, q2 \in Queries :
          /\ q1 # q2
          /\ Entry(pre, c, q1) # <<>>
          /\ Entry(pre, c, q2) = <<>>
          /\ Entry(scraped_data, c, q2) = <<DictGet(ret.val, c)>>
          /\ Entry(scraped_data, c, q1) = Entry(pre, c, q1)

\* C3: a scrape_subreddit or multi_scrape call that raises for an invalid
\* argument has made no request to the client.
C3_RejectedBeforeAnyFetch ==
    (ret.op \in {"scrape_subreddit", "multi_scrape"}
     /\ ret.exc \in {"TypeError", "ValueError", "UserWarning"}) => ~fetched

\* C4: while scrape_subreddit runs, and after it raised (the defences or the
\* client), scraped_data is what it was when the call began.
C4_FailedScrapeLeavesStore ==
    /\ (pc # "idle" /\ ~multi.active) => scraped_data = pre
    /\ (ret.op = "scrape_subreddit" /\ ret.exc # "none") => scraped_data = pre

\* the client raised in a scrape_subreddit call on a store that held a bundle
C4_Witness ==
    /\ ret.op = "scrape_subreddit"
    /\ ret.exc = "UpstreamFailure"
    /\ fetched
    /\ scraped_data # <<>>

\* the subreddits of multi_scrape's list before the position that failed
Before(frame) == {frame.subreddits[j].s : j \in 1..(frame.at - 1)}

MultiFailed == ret.op = "multi_scrape" /\ ret.exc = "UpstreamFailure"

C6_RowCounts ==
    ret.op = "semi_format_to_pandas" =>
        /\ ret.exc = "none" <=> scraped_data # <<>>
        /\ ret.exc = "none" =>
              /\ Len(ret.val[1]) = TotalPosts(scraped_data)
              /\ Len(ret.val[2]) = TotalComments(scraped_data)

\* two bundles were flattened, one of them with comments
C6_Witness ==
    /\ Returns("semi_format_to_pandas")
    /\ Len(ret.val[1]) = 4
    /\ Len(ret.val[2]) = 3
    /\ TotalPosts(scraped_data) = 4

\* C7: semi_format_to_pandas leaves scraped_data as it was (each bundle with
\* its comments and without subreddit or search_query), and a second call
\* returns the tables of the first.
C7_FlattenReadsOnly ==
    Returns("semi_format_to_pandas") =>
        /\ scraped_data = pre
        /\ \A slot \in Slots : \A b \in SeqRange(Entry(scraped_data, slot[1], slot[2])) :
              DOMAIN b = PostFields \cup {"comments"}
        /\ LET again == semi_format_to_pandas(scraped_data)
           IN  /\ again.exc = "ok"
               /\ <<again.posts_df, again.comments_df>> = ret.val

\* bundles of two subreddits were flattened, with posts and comments
C7_Witness ==
    /\ Returns("semi_format_to_pandas")
    /\ Len(scraped_data) = 2
    /\ Len(ret.val[1]) >= 2
    /\ Len(ret.val[2]) >= 1

WellFormed(b) ==
    /\ \A f \in PostFields : Len(b[f]) = Len(b.post_id)
    /\ \A f \in CommentFields : Len(b.comments[f]) = Len(b.comments.post_id)
    /\ SeqRange(b.comments.post_id) \subseteq SeqRange(b.post_id)

\* C8: every stored bundle has post fields of one length, comment fields of
\* one length and comments of its own posts only; the entry that a call with
\* get_comments false wrote has no comments.
C8_BundlesWellFormed ==
    /\ \A slot \in Slots : \A b \in SeqRange(Entry(scraped_data, slot[1], slot[2])) :
          WellFormed(b)
    /\ (Returns("scrape_subreddit") /\ ~args.get_comments.b) =>
          /\ Entry(scraped_data, args.subreddit.s, args.search.s) # <<>>
          /\ \A b \in SeqRange(Entry(scraped_data, args.subreddit.s, args.search.s)) :
                b.comments = NoComments

\* a bundle of two posts and three comments, and one without comments
C8_Witness ==
    \E s1, s2 \in Slots :
        /\ Returns("scrape_subreddit")
        /\ ~args.get_comments.b
        /\ s2 = <<args.subreddit.s, args.search.s>>
        /\ Entry(scraped_data, s1[1], s1[2]) # <<>>
        /\ Entry(scraped_data, s2[1], s2[2]) # <<>>
        /\ LET b1 == Entry(scraped_data, s1[1], s1[2])[1]
               b2 == Entry(scraped_data, s2[1], s2[2])[1]
           IN  /\ Len(b1.post_id) = 2 /\ Len(b1.comments.post_id) = 3
               /\ Len(b2.post_id) = 2 /\ b2.comments = NoComments

\* C9: create_nodes_and_edges returns one edge per row of the joined table,
\* the row with comment_author as source and author as target and its other
\* columns as they are, self-loops included; and as nodes the authors and
\* comment authors of the joined table, each once.
C9_NodesAndEdges ==
    Returns("create_nodes_and_edges") =>
        LET joined == joined_data_df.rows
            edges == ret.val.edges
            nodes == ret.val.nodes
        IN  /\ ~joined_data_df.none
            /\ Len(edges) = Len(joined)
            /\ \A k \in DOMAIN joined :
                  /\ edges[k].source = joined[k].comment_author
                  /\ edges[k].target = joined[k].author
                  /\ DOMAIN edges[k] =
                        ((DOMAIN joined[k]) \ {"comment_author", "author"})
                        \cup {"source", "target"}
                  /\ \A c \in (DOMAIN joined[k]) \ {"comment_author", "author"} :
                        edges[k][c] = joined[k][c]
            /\ DOMAIN nodes =
                  {[id |-> joined[k].author] : k \in DOMAIN joined}
                  \cup {[id |-> joined[k].comment_author] : k \in DOMAIN joined}
            /\ \A row \in DOMAIN nodes : nodes[row] = 1

\* a graph with a self-loop, another edge and the placeholder author
C9_Witness ==
    /\ Returns("create_nodes_and_edges")
    /\ \E k \in DOMAIN ret.val.edges : ret.val.edges[k].source = ret.val.edges[k].target
    /\ \E k \in DOMAIN ret.val.edges : ret.val.edges[k].source # ret.val.edges[k].target
    /\ [id |-> "unknown_author"] \in DOMAIN ret.val.nodes

\* C10: create_nodes_and_edges returns the nodes and edges of the join of
\* scraped_data as it is when the call is made.
C10_GraphOfCurrentStore ==
    Returns("create_nodes_and_edges") =>
        LET now == semi_format_to_pandas(scraped_data)
        IN  /\ now.exc = "ok"
            /\ ret.val = create_nodes_and_edges(
                            full_format_to_pandas(now.posts_df, now.comments_df))

====
